---- MODULE Spec2Model ----
(***************************************************************************)
(* Model of src/src/App.tsx: the note store (App) and the block editor     *)
(* (NoteEditor) of the notes widget, together with the scheduling of the   *)
(* React runtime the two components run on.                                *)
(*                                                                         *)
(* Scheduling (React 18, concurrent root):                                 *)
(*  - a user event handler reads the values of the last committed render   *)
(*    (its closure); the state updates it dispatches are rendered          *)
(*    synchronously before the next user event, and the passive effects of *)
(*    that render are flushed with it;                                     *)
(*  - a state update dispatched from a passive effect (useEffect) is       *)
(*    queued and rendered later (RenderDefault); user events may be        *)
(*    handled while it is queued, and a synchronous render skips it;       *)
(*  - a queued update that is followed by a value-set of the same hook is  *)
(*    overwritten when the queue is rebased;                               *)
(*  - the passive effects of a deferred render are flushed later           *)
(*    (FlushPassive), at the latest when the next render starts.           *)
(***************************************************************************)
EXTENDS Integers, Sequences, FiniteSets, TLC

\* ---- bounds -------------------------------------------------------------
MaxEvents == 2
MaxClock == 2
MaxLen == 1

\* ---- data model (App.tsx 21-35) -------------------------------------------
BlockType == {"text", "heading", "bulleted-list"}

Block(id, type, content) == [id |-> id, type |-> type, content |-> content]

Note(id, title, blocks, created, updated) ==
  [id |-> id, title |-> title, blocks |-> blocks, created |-> created, updated |-> updated]

NoSel == 0

Ids(s) == {s[i].id : i \in DOMAIN s}

\* ---- JSON text, as a sequence of tokens -----------------------------------
Punct(c) == [k |-> c, v |-> 0]
Key(s) == [k |-> "key", v |-> s]
Lit(kind, v) == [k |-> kind, v |-> v]

RECURSIVE Flatten(_)
Flatten(ss) == IF ss = <<>> THEN <<>> ELSE Head(ss) \o Flatten(Tail(ss))

StringifyBlock(b) ==
  << Punct("{"), Key("id"), Lit("id", b.id), Key("type"), Lit("sym", b.type),
     Key("content"), Lit("text", b.content), Punct("}") >>

StringifyBlocks(bs) ==
  <<Punct("[")>> \o Flatten([i \in DOMAIN bs |-> StringifyBlock(bs[i])]) \o <<Punct("]")>>

StringifyNote(n) ==
  << Punct("{"), Key("id"), Lit("id", n.id), Key("title"), Lit("sym", n.title), Key("blocks") >>
  \o StringifyBlocks(n.blocks)
  \o << Key("created"), Lit("num", n.created), Key("updated"), Lit("num", n.updated), Punct("}") >>

Stringify(ns) ==
  <<Punct("[")>> \o Flatten([i \in DOMAIN ns |-> StringifyNote(ns[i])]) \o <<Punct("]")>>

ParseFail == [ok |-> FALSE, val |-> 0, next |-> 0]

RECURSIVE ParseValue(_, _)
RECURSIVE ParseItems(_, _, _)
RECURSIVE ParseFields(_, _, _)

ParseValue(ts, i) ==
  IF i > Len(ts) THEN ParseFail
  ELSE IF ts[i].k = "[" THEN ParseItems(ts, i + 1, <<>>)
  ELSE IF ts[i].k = "{" THEN ParseFields(ts, i + 1, <<>>)
  ELSE IF ts[i].k \in {"id", "sym", "text", "num", "null"}
       THEN [ok |-> TRUE, val |-> [t |-> "lit", c |-> ts[i]], next |-> i + 1]
  ELSE ParseFail

ParseItems(ts, i, acc) ==
  IF i > Len(ts) THEN ParseFail
  ELSE IF ts[i].k = "]" THEN [ok |-> TRUE, val |-> [t |-> "arr", c |-> acc], next |-> i + 1]
  ELSE LET r == ParseValue(ts, i)
       IN IF r.ok THEN ParseItems(ts, r.next, Append(acc, r.val)) ELSE ParseFail

ParseFields(ts, i, acc) ==
  IF i > Len(ts) THEN ParseFail
  ELSE IF ts[i].k = "}" THEN [ok |-> TRUE, val |-> [t |-> "obj", c |-> acc], next |-> i + 1]
  ELSE IF ts[i].k # "key" THEN ParseFail
  ELSE LET r == ParseValue(ts, i + 1)
       IN IF r.ok THEN ParseFields(ts, r.next, Append(acc, [key |-> ts[i].v, val |-> r.val]))
          ELSE ParseFail

JSONparse(ts) ==
  LET r == ParseValue(ts, 1)
  IN IF r.ok /\ r.next = Len(ts) + 1 THEN [ok |-> TRUE, val |-> r.val] ELSE [ok |-> FALSE, val |-> 0]

\* ---- the parsed value seen through the Note[] type ------------------------
HasShape(v, keys, kinds) ==
  /\ v.t = "obj"
  /\ Len(v.c) = Len(keys)
  /\ \A i \in DOMAIN keys :
       /\ v.c[i].key = keys[i]
       /\ v.c[i].val.t = (IF kinds[i] = "arr" THEN "arr" ELSE "lit")
       /\ kinds[i] # "arr" => v.c[i].val.c.k = kinds[i]

IsBlockValue(v) == HasShape(v, <<"id", "type", "content">>, <<"id", "sym", "text">>)

IsNoteValue(v) ==
  /\ HasShape(v, <<"id", "title", "blocks", "created", "updated">>,
                 <<"id", "sym", "arr", "num", "num">>)
  /\ \A j \in DOMAIN v.c[3].val.c : IsBlockValue(v.c[3].val.c[j])

IsNoteArray(v) == v.t = "arr" /\ \A i \in DOMAIN v.c : IsNoteValue(v.c[i])

AsBlock(v) == Block(v.c[1].val.c.v, v.c[2].val.c.v, v.c[3].val.c.v)

AsNote(v) ==
  Note(v.c[1].val.c.v, v.c[2].val.c.v,
       [j \in DOMAIN v.c[3].val.c |-> AsBlock(v.c[3].val.c[j])],
       v.c[4].val.c.v, v.c[5].val.c.v)

AsNotes(v) == [i \in DOMAIN v.c |-> AsNote(v.c[i])]

\* ---- localStorage entry ---------------------------------------------------
Absent == [present |-> FALSE, text |-> <<>>]
Entry(text) == [present |-> TRUE, text |-> text]

\* loadNotes(): the value handed to the caller.  kind "notes": an array of
\* Note objects; kind "null": the JSON value null; kind "other": any other
\* parsed value (an object, a number, an array of something else).
loadNotes(st) ==
  IF ~st.present \/ st.text = <<>> THEN [kind |-> "notes", notes |-> <<>>]
  ELSE LET p == JSONparse(st.text)
       IN IF ~p.ok THEN [kind |-> "notes", notes |-> <<>>]
          ELSE IF IsNoteArray(p.val) THEN [kind |-> "notes", notes |-> AsNotes(p.val)]
          ELSE IF p.val.t = "lit" /\ p.val.c.k = "null" THEN [kind |-> "null", notes |-> <<>>]
          ELSE [kind |-> "other", notes |-> <<>>]

saveNotes(ns) == Entry(Stringify(ns))


\* ---- program state ----------------------------------------------------------
VARIABLES
  storage,     \* the localStorage entry under LS_KEY
  now,         \* Date.now()
  nextId,      \* ids already drawn from Math.random()
  notes,       \* App: `notes` as of the last committed render
  selectedId,  \* App: `selectedId` as of the last committed render (NoSel: null)
  title,       \* NoteEditor: `title` as of the last committed render
  blocks,      \* NoteEditor: `blocks` as of the last committed render
  blocksRef,   \* "note" while `blocks` is still the array of the note prop it was mounted with
  dom,         \* innerText of each rendered block's contentEditable element
  qNotes,      \* setNotes updates dispatched from effects, not rendered yet
  qSel,        \* setSelectedId update dispatched from an effect, not rendered yet
  qTitle,      \* setTitle update dispatched from an effect, not rendered yet
  qBlocks,     \* setBlocks updates not rendered yet (final value and its identity)
  fx,          \* passive effects of the last commit that have not run yet
  crashed,     \* an exception escaped a render or an effect: the tree is unmounted
  events,      \* user events handled so far
  ev           \* the last step taken

vars == << storage, now, nextId, notes, selectedId, title, blocks, blocksRef, dom,
           qNotes, qSel, qTitle, qBlocks, fx, crashed, events, ev >>

NoSelUpdate == [has |-> FALSE, v |-> NoSel]
NoTitleUpdate == [has |-> FALSE, v |-> ""]
NoBlocksUpdate == [has |-> FALSE, v |-> <<>>, ref |-> "note"]

\* ---- newNote (App.tsx 53-72) ------------------------------------------------
NewNoteHeading == <<"New Note">>

newNote(id, t) ==
  Note(id, "Untitled",
       << Block(id + 1, "heading", NewNoteHeading), Block(id + 2, "text", <<>>) >>,
       t, t)

\* ---- App (App.tsx 84-125) ---------------------------------------------------
\* notes.findIndex((n) => n.id === id), counted from 1; 0 when there is none
FindIndex(ns, id) ==
  IF \E i \in DOMAIN ns : ns[i].id = id
  THEN CHOOSE i \in DOMAIN ns : ns[i].id = id /\ \A j \in 1..(i - 1) : ns[j].id # id
  ELSE 0

\* const selectedNote = notes.find((n) => n.id === selectedId) || null
selectedNote(ns, sid) == FindIndex(ns, sid)

\* key={selectedNote.id}: the identity of the mounted NoteEditor, NoSel when none
EditorKey(ns, sid) == IF selectedNote(ns, sid) = 0 THEN NoSel ELSE sid

\* faulty variant of handleAddNote: the new note is appended ([...notes, n])
handleAddNoteAppends(ns, n) == [notes |-> ns \o <<n>>, sel |-> n.id]

handleAddNote(ns, n) == [notes |-> <<n>> \o ns, sel |-> n.id]

\* faulty variant of handleDeleteNote: the fallback is read from the filtered
\* list's neighbour on the wrong side (notes[idx + 1], the removed note when it
\* is the last one)
handleDeleteNoteWrongSide(ns, id) ==
  LET idx == FindIndex(ns, id)
      nextSel == IF Len(ns) > 1
                 THEN (IF idx = Len(ns) THEN ns[idx].id ELSE ns[idx + 1].id)
                 ELSE NoSel
  IN [notes |-> SelectSeq(ns, LAMBDA n : n.id # id), sel |-> nextSel]

handleDeleteNote(ns, id) ==
  LET idx == FindIndex(ns, id)
      nextSel == IF Len(ns) > 1
                 THEN (IF idx = 1 THEN ns[2].id ELSE ns[idx - 1].id)
                 ELSE NoSel
  IN [notes |-> SelectSeq(ns, LAMBDA n : n.id # id), sel |-> nextSel]

\* faulty variant of handleUpdateNote: the id test is dropped
handleUpdateNoteAll(prev, updated, t) ==
  [i \in DOMAIN prev |-> [updated EXCEPT !.updated = t]]

handleUpdateNote(prev, updated, t) ==
  [i \in DOMAIN prev |->
     IF prev[i].id = updated.id THEN [updated EXCEPT !.updated = t] ELSE prev[i]]

\* ---- NoteEditor block updaters (App.tsx 423-499) ----------------------------
Min(a, b) == IF a < b THEN a ELSE b

\* handleBlockInput's updater
InputF(id, content) == [f |-> "input", id |-> id, idx |-> 0, content |-> content]
\* the Enter branch's updater
EnterF(idx, newId) == [f |-> "enter", id |-> newId, idx |-> idx, content |-> <<>>]
\* the Backspace branch's updater
RemoveF(id) == [f |-> "remove", id |-> id, idx |-> 0, content |-> <<>>]
\* the slash branch's updater
CycleF(id) == [f |-> "cycle", id |-> id, idx |-> 0, content |-> <<>>]

\* faulty variant of the type cycle: a heading goes back to plain text
CycleTypeTwo(t) == IF t = "text" THEN "heading" ELSE "text"

CycleType(t) ==
  IF t = "text" THEN "heading" ELSE IF t = "heading" THEN "bulleted-list" ELSE "text"

ApplyF(u, prev) ==
  CASE u.f = "input" ->
         [i \in DOMAIN prev |->
            IF prev[i].id = u.id THEN [prev[i] EXCEPT !.content = u.content] ELSE prev[i]]
    [] u.f = "enter" ->
         SubSeq(prev, 1, Min(u.idx, Len(prev)))
           \o << Block(u.id, "text", <<>>) >>
           \o SubSeq(prev, Min(u.idx, Len(prev)) + 1, Len(prev))
    [] u.f = "remove" -> SelectSeq(prev, LAMBDA b : b.id # u.id)
    [] u.f = "cycle" ->
         [i \in DOMAIN prev |->
            IF prev[i].id = u.id THEN [prev[i] EXCEPT !.type = CycleType(@)] ELSE prev[i]]

RECURSIVE ApplyFs(_, _)
ApplyFs(us, prev) == IF us = <<>> THEN prev ELSE ApplyFs(Tail(us), ApplyF(Head(us), prev))


\* ---- the React state of the two components, as one record -------------------
Machine ==
  [storage |-> storage, notes |-> notes, sel |-> selectedId, title |-> title,
   blocks |-> blocks, ref |-> blocksRef, dom |-> dom, qNotes |-> qNotes, qSel |-> qSel,
   qTitle |-> qTitle, qBlocks |-> qBlocks, crashed |-> crashed]

Install(m) ==
  /\ storage' = m.storage
  /\ notes' = m.notes
  /\ selectedId' = m.sel
  /\ title' = m.title
  /\ blocks' = m.blocks
  /\ blocksRef' = m.ref
  /\ dom' = m.dom
  /\ qNotes' = m.qNotes
  /\ qSel' = m.qSel
  /\ qTitle' = m.qTitle
  /\ qBlocks' = m.qBlocks
  /\ crashed' = m.crashed

\* ---- passive effects --------------------------------------------------------
\* faulty variant of the load effect: the first note is not selected
LoadEffectKeepsSelection(m, run) ==
  LET n == loadNotes(m.storage)
  IN CASE ~run -> m
       [] n.kind = "null" -> [m EXCEPT !.crashed = TRUE]
       [] n.kind = "other" -> [m EXCEPT !.qNotes = Append(@, [k |-> "bad", v |-> 0])]
       [] OTHER -> [m EXCEPT !.qNotes = Append(@, [k |-> "set", v |-> n.notes])]

\* App, "Load notes from localStorage" (App.tsx 90-94).  null.length throws in
\* the effect; any other value that is no array is stored by setNotes and makes
\* the next render throw (notes.find / notes.map / blocks.map is not a function).
LoadEffect(m, run) ==
  LET n == loadNotes(m.storage)
  IN CASE ~run -> m
       [] n.kind = "null" -> [m EXCEPT !.crashed = TRUE]
       [] n.kind = "other" -> [m EXCEPT !.qNotes = Append(@, [k |-> "bad", v |-> 0])]
       [] OTHER ->
            [m EXCEPT !.qNotes = Append(@, [k |-> "set", v |-> n.notes]),
                      !.qSel = IF Len(n.notes) > 0 THEN [has |-> TRUE, v |-> n.notes[1].id]
                               ELSE @]

\* App, "Save notes to localStorage" (App.tsx 97-99)
SaveEffect(m, run) == IF run THEN [m EXCEPT !.storage = saveNotes(m.notes)] ELSE m

\* NoteEditor, "Autosave on change" (App.tsx 404-412); onChange is handleUpdateNote,
\* whose setNotes updater is queued
AutosaveEffect(m, run) ==
  LET i == selectedNote(m.notes, m.sel)
  IN IF ~run \/ i = 0 THEN m
     ELSE LET note == m.notes[i]
          IN IF m.title # note.title
                \/ StringifyBlocks(m.blocks) # StringifyBlocks(note.blocks)
             THEN [m EXCEPT !.qNotes =
                     Append(@, [k |-> "upd",
                                v |-> [note EXCEPT !.title = m.title, !.blocks = m.blocks]])]
             ELSE m

\* NoteEditor, the [note.id] effect (App.tsx 415-418).  The editor is keyed by
\* the note id, so it runs once per mount, when the rendered title and blocks are
\* still the note's: React drops a set of the current value unless the hook has
\* an update pending (hT, hB: the event being handled has dispatched one).
ResetEffect(m, run, hT, hB) ==
  LET i == selectedNote(m.notes, m.sel)
  IN IF ~run \/ i = 0 THEN m
     ELSE LET note == m.notes[i]
          IN [m EXCEPT !.qTitle = IF hT THEN [has |-> TRUE, v |-> note.title] ELSE @,
                       !.qBlocks = IF hB THEN [has |-> TRUE, v |-> note.blocks, ref |-> "note"]
                                   ELSE @]

\* faulty variant of RunEffects: the save effect is declared before the load effect
RunEffectsSaveFirst(m, f, hT, hB) ==
  LoadEffect(
    SaveEffect(
      ResetEffect(AutosaveEffect(m, "autosave" \in f), "reset" \in f, hT, hB),
      "save" \in f),
    "load" \in f)

\* one flush of the passive effects in f: the child's effects first, each
\* component's in the order of declaration
RunEffects(m, f, hT, hB) ==
  SaveEffect(
    LoadEffect(
      ResetEffect(AutosaveEffect(m, "autosave" \in f), "reset" \in f, hT, hB),
      "load" \in f),
    "save" \in f)

\* ---- commit -----------------------------------------------------------------
FreshDom(bs) == [id \in Ids(bs) |-> (CHOOSE b \in {bs[i] : i \in DOMAIN bs} : b.id = id).content]

BlockById(bs, id) == CHOOSE b \in {bs[i] : i \in DOMAIN bs} : b.id = id

\* dangerouslySetInnerHTML (App.tsx 543-589): React writes innerHTML when the
\* element is new or its __html differs from the previous render's; a block that
\* becomes or stops being a bulleted-list item gets a new editable element
RenderDom(old, new, d) ==
  [id \in Ids(new) |->
     IF id \notin DOMAIN d \/ id \notin Ids(old) THEN BlockById(new, id).content
     ELSE LET o == BlockById(old, id)
              n == BlockById(new, id)
          IN IF o.content # n.content
                \/ (o.type # n.type /\ "bulleted-list" \in {o.type, n.type})
             THEN n.content
             ELSE d[id]]

\* the committed render of App and NoteEditor for the state (ns, sid) and, for an
\* editor that stays mounted, the local state (t, bs, r) over the DOM d
Commit(m, ns, sid, t, bs, r, d) ==
  LET key == EditorKey(ns, sid)
      old == EditorKey(m.notes, m.sel)
  IN IF key = NoSel
     THEN [m EXCEPT !.notes = ns, !.sel = sid, !.title = "", !.blocks = <<>>,
                    !.ref = "note", !.dom = <<>>,
                    !.qTitle = NoTitleUpdate, !.qBlocks = NoBlocksUpdate]
     ELSE IF key # old
     THEN LET n == ns[selectedNote(ns, sid)]
          IN [m EXCEPT !.notes = ns, !.sel = sid, !.title = n.title, !.blocks = n.blocks,
                       !.ref = "note", !.dom = FreshDom(n.blocks),
                       !.qTitle = NoTitleUpdate, !.qBlocks = NoBlocksUpdate]
     ELSE [m EXCEPT !.notes = ns, !.sel = sid, !.title = t, !.blocks = bs, !.ref = r,
                    !.dom = RenderDom(m.blocks, bs, d)]

\* the effects whose dependencies changed in the commit from m to c
EffectsOf(m, c, notesSet, blocksSet) ==
  LET key == EditorKey(c.notes, c.sel)
      mounted == key # NoSel /\ key # EditorKey(m.notes, m.sel)
  IN (IF notesSet THEN {"save"} ELSE {})
     \cup (IF mounted THEN {"autosave", "reset"} ELSE {})
     \cup (IF key # NoSel /\ ~mounted /\ (c.title # m.title \/ blocksSet)
           THEN {"autosave"} ELSE {})


\* ---- one user event: handler, synchronous render, its effects ---------------
\* what a handler dispatches: value-sets of notes, selectedId and title, the
\* block updaters in order, and the DOM after the browser's default action
NoUpdates ==
  [setsNotes |-> FALSE, notes |-> <<>>, setsSel |-> FALSE, sel |-> NoSel,
   setsTitle |-> FALSE, title |-> "", fs |-> <<>>, dom |-> dom]

\* the handler's updates enter the hooks' queues: a value-set overwrites what
\* is queued before it, an updater is rebased onto it
Dispatch(m, h) ==
  [m EXCEPT
     !.qNotes = IF h.setsNotes THEN <<>> ELSE @,
     !.qSel = IF h.setsSel THEN NoSelUpdate ELSE @,
     !.qTitle = IF h.setsTitle THEN NoTitleUpdate ELSE @,
     !.qBlocks = IF h.fs # <<>> /\ @.has
                 THEN [has |-> TRUE, v |-> ApplyFs(h.fs, @.v), ref |-> "local"]
                 ELSE @]

\* the synchronous render of the handler's updates over the rendered state
SyncCommit(m, h) ==
  Commit(m,
         IF h.setsNotes THEN h.notes ELSE m.notes,
         IF h.setsSel THEN h.sel ELSE m.sel,
         IF h.setsTitle THEN h.title ELSE m.title,
         ApplyFs(h.fs, m.blocks),
         IF h.fs # <<>> THEN "local" ELSE m.ref,
         h.dom)

\* the passive effects of the synchronous commit c of m, flushed with it
SyncEffects(m, c, h) ==
  IF m.crashed THEN m
  ELSE RunEffects(c, EffectsOf(m, c, h.setsNotes, h.fs # <<>>), FALSE, FALSE)

SyncRender(m, h) == SyncEffects(m, SyncCommit(m, h), h)

\* the render starts by flushing the passive effects still pending
Sync(h) ==
  /\ Install(SyncRender(RunEffects(Dispatch(Machine, h), fx, h.setsTitle, h.fs # <<>>), h))
  /\ fx' = {}

Idle == UNCHANGED << storage, notes, selectedId, title, blocks, blocksRef, dom,
                     qNotes, qSel, qTitle, qBlocks, fx, crashed >>

\* the stored notes have been loaded and rendered
StartupDone == "load" \notin fx /\ \A i \in DOMAIN qNotes : qNotes[i].k = "upd"

\* the user acts on the page once it shows the stored notes
UserEvent == ~crashed /\ StartupDone /\ events < MaxEvents

EditorMounted == selectedNote(notes, selectedId) # 0

Titles == {"Untitled", "T"}
PasteTexts == {<<"y">>}
Keys == {"Enter", "Backspace", "/", "x"}

Insert(s, k, t) == SubSeq(s, 1, k) \o t \o SubSeq(s, k + 1, Len(s))

\* "New Note" button (App.tsx 197)
AddNote ==
  /\ UserEvent
  /\ LET n == newNote(nextId, now)
         r == handleAddNote(notes, n)
     IN /\ Sync([NoUpdates EXCEPT !.setsNotes = TRUE, !.notes = r.notes,
                                  !.setsSel = TRUE, !.sel = r.sel])
        /\ ev' = [op |-> "add", id |-> n.id, ok |-> TRUE]
  /\ nextId' = nextId + 3
  /\ events' = events + 1
  /\ UNCHANGED now

\* "Delete note" button of a listed note (App.tsx 284-287), window.confirm answered
DeleteNote ==
  /\ UserEvent
  /\ \E id \in Ids(notes), confirm \in BOOLEAN :
       /\ IF confirm
          THEN LET r == handleDeleteNote(notes, id)
               IN Sync([NoUpdates EXCEPT !.setsNotes = TRUE, !.notes = r.notes,
                                         !.setsSel = TRUE, !.sel = r.sel])
          ELSE Idle
       /\ ev' = [op |-> "delete", id |-> id, ok |-> confirm]
  /\ events' = events + 1
  /\ UNCHANGED << now, nextId >>

\* click on a listed note that is not the selected one (App.tsx 258)
SelectNote ==
  /\ UserEvent
  /\ \E id \in Ids(notes) \ {selectedId} :
       /\ Sync([NoUpdates EXCEPT !.setsSel = TRUE, !.sel = id])
       /\ ev' = [op |-> "select", id |-> id, ok |-> TRUE]
  /\ events' = events + 1
  /\ UNCHANGED << now, nextId >>

\* change event of the title input (App.tsx 607)
TitleChange ==
  /\ UserEvent
  /\ EditorMounted
  /\ \E t \in Titles \ {title} :
       /\ Sync([NoUpdates EXCEPT !.setsTitle = TRUE, !.title = t])
       /\ ev' = [op |-> "title", id |-> selectedId, ok |-> TRUE]
  /\ events' = events + 1
  /\ UNCHANGED << now, nextId >>

\* the browser's default action of a key that inserts or erases text in a block,
\* and the input event it fires (App.tsx 527-528)
TypeInto(block, text, op) ==
  LET d == [dom EXCEPT ![block.id] = text]
  IN /\ Sync([NoUpdates EXCEPT !.fs = << InputF(block.id, d[block.id]) >>, !.dom = d])
     /\ ev' = [op |-> op, id |-> block.id, ok |-> TRUE]

\* keydown on a rendered block (App.tsx 432-488, 529-530)
KeyDown ==
  /\ UserEvent
  /\ EditorMounted
  /\ \E idx \in DOMAIN blocks, key \in Keys :
       LET block == blocks[idx]
           text == dom[block.id]
       IN CASE key = "Enter" ->
                 /\ Sync([NoUpdates EXCEPT !.fs = << EnterF(idx, nextId) >>])
                 /\ ev' = [op |-> "enter", id |-> nextId, ok |-> TRUE]
                 /\ nextId' = nextId + 1
            [] key = "Backspace" ->
                 /\ IF block.content = <<>> /\ Len(blocks) > 1
                    THEN /\ Sync([NoUpdates EXCEPT !.fs = << RemoveF(block.id) >>])
                         /\ ev' = [op |-> "remove", id |-> block.id, ok |-> TRUE]
                    ELSE IF text # <<>>
                    THEN TypeInto(block, SubSeq(text, 1, Len(text) - 1), "erase")
                    ELSE /\ Idle
                         /\ ev' = [op |-> "remove", id |-> block.id, ok |-> FALSE]
                 /\ UNCHANGED nextId
            [] key = "/" /\ block.type = "text" ->
                 /\ Sync([NoUpdates EXCEPT !.fs = << CycleF(block.id) >>])
                 /\ ev' = [op |-> "cycle", id |-> block.id, ok |-> TRUE]
                 /\ UNCHANGED nextId
            [] OTHER ->
                 /\ Len(text) < MaxLen
                 /\ TypeInto(block, Append(text, key), IF key = "/" THEN "slash" ELSE "type")
                 /\ UNCHANGED nextId
  /\ events' = events + 1
  /\ UNCHANGED now

\* paste into a rendered block, caret after k characters (App.tsx 490-499, 531-532):
\* execCommand inserts the text and fires the input event, then the handler calls
\* handleBlockInput with the pasted text
Paste ==
  /\ UserEvent
  /\ EditorMounted
  /\ \E idx \in DOMAIN blocks, text \in PasteTexts :
       LET block == blocks[idx]
       IN /\ Len(dom[block.id]) <= MaxLen
          /\ \E k \in 0..Len(dom[block.id]) :
               LET d == [dom EXCEPT ![block.id] = Insert(@, k, text)]
               IN /\ Sync([NoUpdates EXCEPT
                             !.fs = << InputF(block.id, d[block.id]), InputF(block.id, text) >>,
                             !.dom = d])
                  /\ ev' = [op |-> "paste", id |-> block.id, ok |-> TRUE]
  /\ events' = events + 1
  /\ UNCHANGED << now, nextId >>

\* ---- deferred work of the runtime -------------------------------------------
FlushPassive ==
  /\ ~crashed
  /\ fx # {}
  /\ Install(RunEffects(Machine, fx, FALSE, FALSE))
  /\ fx' = {}
  /\ ev' = [op |-> "flush", id |-> 0, ok |-> TRUE]
  /\ UNCHANGED << now, nextId, events >>

\* the queued setNotes updates applied in order; bad: the state is no array
RECURSIVE ApplyQueue(_, _, _)
ApplyQueue(q, ns, t) ==
  IF q = <<>> THEN [bad |-> FALSE, notes |-> ns, stale |-> 0]
  ELSE CASE Head(q).k = "set" -> ApplyQueue(Tail(q), Head(q).v, t)
         [] Head(q).k = "upd" ->
              LET r == ApplyQueue(Tail(q), handleUpdateNote(ns, Head(q).v, t), t)
              IN [r EXCEPT !.stale = @ + (IF Head(q).v.id \in Ids(ns) THEN 0 ELSE 1)]
         [] OTHER -> [bad |-> TRUE, notes |-> <<>>, stale |-> 0]

\* the deferred render of the queued updates over the rendered state m
DefaultCommit(m, ns) ==
  Commit([m EXCEPT !.qNotes = <<>>, !.qSel = NoSelUpdate], ns,
         IF m.qSel.has THEN m.qSel.v ELSE m.sel,
         IF m.qTitle.has THEN m.qTitle.v ELSE m.title,
         IF m.qBlocks.has THEN m.qBlocks.v ELSE m.blocks,
         IF m.qBlocks.has THEN m.qBlocks.ref ELSE m.ref,
         m.dom)

DefaultRendered(m, c, r) ==
  IF r.bad
  THEN /\ Install([m EXCEPT !.qNotes = <<>>, !.qSel = NoSelUpdate, !.crashed = TRUE])
       /\ fx' = {}
       /\ ev' = [op |-> "render", id |-> 0, ok |-> FALSE]
  ELSE /\ Install([c EXCEPT !.qTitle = NoTitleUpdate, !.qBlocks = NoBlocksUpdate])
       /\ fx' = EffectsOf(m, c, m.qNotes # <<>>,
                          m.qBlocks.has /\ ~(m.qBlocks.ref = "note" /\ m.ref = "note"))
       /\ ev' = [op |-> "render", id |-> r.stale, ok |-> TRUE]

DefaultRender(m, r) == DefaultRendered(m, DefaultCommit(m, r.notes), r)

RenderDefault ==
  /\ ~crashed
  /\ fx = {}
  /\ qNotes # <<>> \/ qSel.has \/ qTitle.has \/ qBlocks.has
  /\ DefaultRender(Machine, ApplyQueue(qNotes, notes, now))
  /\ UNCHANGED << now, nextId, events >>

\* time passes
Tick ==
  /\ now < MaxClock
  /\ now' = now + 1
  /\ UNCHANGED << storage, nextId, notes, selectedId, title, blocks, blocksRef, dom,
                  qNotes, qSel, qTitle, qBlocks, fx, crashed, events, ev >>

\* ---- initial state: the first render is committed, its effects are pending ---
StoredA == Note(1, "Untitled", << Block(2, "text", <<>>) >>, 0, 0)
StoredB ==
  Note(3, "T", << Block(4, "heading", <<"x">>), Block(5, "text", <<>>) >>, 0, 1)

FirstFreeId == 6

InitialStorage ==
  { Absent,
    Entry(<<>>),
    Entry(<< Punct("["), Punct("{") >>),
    Entry(<< Lit("null", 0) >>),
    Entry(<< Punct("{"), Punct("}") >>),
    Entry(Stringify(<<>>)),
    Entry(Stringify(<< StoredA, StoredB >>)) }

Init ==
  /\ storage \in InitialStorage
  /\ now = 1
  /\ nextId = FirstFreeId
  /\ notes = <<>>
  /\ selectedId = NoSel
  /\ title = ""
  /\ blocks = <<>>
  /\ blocksRef = "note"
  /\ dom = <<>>
  /\ qNotes = <<>>
  /\ qSel = NoSelUpdate
  /\ qTitle = NoTitleUpdate
  /\ qBlocks = NoBlocksUpdate
  /\ fx = {"load", "save"}
  /\ crashed = FALSE
  /\ events = 0
  /\ ev = [op |-> "mount", id |-> 0, ok |-> TRUE]

Next ==
  \/ AddNote
  \/ DeleteNote
  \/ SelectNote
  \/ TitleChange
  \/ KeyDown
  \/ Paste
  \/ FlushPassive
  \/ RenderDefault
  \/ Tick

Spec == Init /\ [][Next]_vars

\* ---- properties -------------------------------------------------------------
\* nothing is pending: every effect has run and every queued update is rendered
Settled ==
  ~crashed /\ fx = {} /\ qNotes = <<>> /\ ~qSel.has /\ ~qTitle.has /\ ~qBlocks.has

\* the stored note the editor shows
SelNote == notes[selectedNote(notes, selectedId)]

Without(s, i) == SubSeq(s, 1, i - 1) \o SubSeq(s, i + 1, Len(s))

\* the step is the handling of a user event labelled op
Handled(op) == events' = events + 1 /\ ev'.op = op

\* C1: a confirmed remove(id) of a listed note removes exactly that note, keeps
\* the others in their order, and selects: nothing when the collection had one
\* note, the note originally second when the first of several was removed, the
\* note just before the removed one otherwise.
C1_RemoveSelectsNeighbour ==
  [][(Handled("delete") /\ ev'.ok) =>
       /\ FindIndex(notes, ev'.id) > 0
       /\ notes' = Without(notes, FindIndex(notes, ev'.id))
       /\ selectedId' = IF Len(notes) = 1 THEN NoSel
                        ELSE IF FindIndex(notes, ev'.id) = 1 THEN notes[2].id
                        ELSE notes[FindIndex(notes, ev'.id) - 1].id]_vars

\* a confirmed remove from several notes has just been handled
C1_Removed ==
  /\ ev.op = "delete" /\ ev.ok
  /\ ev.id \notin Ids(notes)
  /\ notes # <<>>
  /\ selectedId \in Ids(notes)

\* C2: each add makes the collection one longer, keeps the notes that were there
\* in their order, puts the new note first and selects it.
C2_AddPrepends ==
  [][Handled("add") =>
       /\ Len(notes') = Len(notes) + 1
       /\ Tail(notes') = notes
       /\ Head(notes') = newNote(ev'.id, now)
       /\ selectedId' = ev'.id]_vars

\* an add to a collection of two notes has just been handled
C2_Added == ev.op = "add" /\ Len(notes) = 3 /\ selectedId = Head(notes).id

\* C3: whatever the persisted entry holds (nothing, unparsable text, JSON that
\* is no array of notes), startup raises no exception.
C3_StartupNeverThrows == ~crashed

\* the deferred render applies queued updates of handleUpdateNote only
UpdateRendered ==
  /\ ev'.op = "render" /\ ev'.ok
  /\ qNotes # <<>> /\ qNotes' = <<>>
  /\ \A k \in DOMAIN qNotes : qNotes[k].k = "upd"

Targets == {qNotes[k].v.id : k \in DOMAIN qNotes}

\* C4: update(note) replaces only the note with the matching id: the other
\* notes, the order and the selection stay, created never changes, updated
\* never decreases and is at least created; an update whose id is in no note
\* leaves the collection as it is.
C4_UpdateFrame ==
  [][/\ \A i \in DOMAIN notes, j \in DOMAIN notes' :
          notes[i].id = notes'[j].id =>
            /\ notes'[j].created = notes[i].created
            /\ notes'[j].updated >= notes[i].updated
            /\ notes'[j].updated >= notes'[j].created
     /\ UpdateRendered =>
          /\ selectedId' = selectedId
          /\ Len(notes') = Len(notes)
          /\ \A i \in DOMAIN notes :
               /\ notes'[i].id = notes[i].id
               /\ notes[i].id \notin Targets => notes'[i] = notes[i]
               /\ notes[i].id \in Targets =>
                    \E k \in DOMAIN qNotes :
                      notes'[i] = [qNotes[k].v EXCEPT !.updated = now]]_vars

\* an update of a note that had been deleted meanwhile has just been applied
C4_StaleUpdateApplied == ev.op = "render" /\ ev.ok /\ ev.id > 0 /\ notes # <<>>

\* C5: the note being edited always has at least one block, in the editor and
\* in the store.
C5_AtLeastOneBlock ==
  (~crashed /\ EditorMounted) => (Len(blocks) >= 1 /\ Len(SelNote.blocks) >= 1)

\* C6: the type change of the "/" key is a 3-cycle.  The key applies it to a
\* plain-text block, which becomes a heading; applied twice more it gives a
\* bulleted-list item and then the plain-text block again, the block's id,
\* content and position (and every other block) staying as they are.
C6_ThreeCycle ==
  [][\A i \in DOMAIN blocks :
       (Handled("cycle") /\ ev'.id = blocks[i].id) =>
         /\ blocks[i].type = "text"
         /\ blocks' = [blocks EXCEPT ![i].type = "heading"]
         /\ ApplyF(CycleF(ev'.id), blocks') = [blocks EXCEPT ![i].type = "bulleted-list"]
         /\ ApplyF(CycleF(ev'.id), ApplyF(CycleF(ev'.id), blocks')) = blocks]_vars

\* "/" has just turned a plain-text block with a neighbour into a heading
C6_Cycled ==
  /\ ev.op = "cycle"
  /\ ev.id \in Ids(blocks)
  /\ BlockById(blocks, ev.id).type = "heading"
  /\ Len(blocks) >= 2

\* C7: once propagation has settled, the stored title and blocks of the
\* selected note are the editor's.
C7_EditsPropagated ==
  (Settled /\ EditorMounted) => (SelNote.title = title /\ SelNote.blocks = blocks)

\* the effects pending after the first render run in this step
StartupEffects == events = 0 /\ "load" \in fx /\ fx' = {}

C9_PasteInserts ==
  [][\A i \in DOMAIN blocks :
       (Handled("paste") /\ ev'.id = blocks[i].id) =>
         /\ Len(blocks') = Len(blocks)
         /\ \A j \in DOMAIN blocks \ {i} : blocks'[j] = blocks[j]
         /\ blocks'[i].id = blocks[i].id /\ blocks'[i].type = blocks[i].type
         /\ blocks'[i].content = dom'[blocks[i].id]
         /\ \E k \in 0..Len(blocks[i].content), t \in PasteTexts :
              blocks'[i].content = Insert(blocks[i].content, k, t)]_vars

\* C10: the selection is null or the id of a note of the collection, and null
\* only when the collection is empty.
C10_SelectionValid ==
  /\ selectedId = NoSel \/ selectedId \in Ids(notes)
  /\ selectedId = NoSel => notes = <<>>

\* a note has just been removed from a collection of three
C10_OneRemoved ==
  /\ ev.op = "delete" /\ ev.ok
  /\ selectedId \in Ids(notes)
  /\ Len(notes) >= 2

====
